---- MODULE Spec2Model ----
(***************************************************************************)
(* Friend-request workflow of users/views.py: send_friend_request,         *)
(* accept_friend_request, reject_friend_request, list_friends and          *)
(* list_pending_requests over the FriendRequest table.                     *)
(*                                                                         *)
(* A FriendRequest row is a record                                         *)
(*   [sender, receiver, is_accepted, is_rejected, timestamp]               *)
(* and its primary key is its position in the sequence rows (keys are      *)
(* handed out in insertion order and rows are never deleted).              *)
(***************************************************************************)
EXTENDS Integers, Sequences, FiniteSets

VARIABLES
    rows,       \* the FriendRequest table, indexed by primary key
    now,        \* the wall clock read by timezone.now(), in seconds
    request,    \* the request most recently handled: [op, actor, email, pk]
    response,   \* the response returned for it: [status, detail, ids, users]
    unique_together, \* whether the table rejects a second (sender, receiver) row
    worker      \* per HTTP worker: the call it is in the middle of, or its last answer

vars == <<rows, now, request, response, unique_together, worker>>

------------------------------------------------------------------------------
(* Bounds of the model *)

MaxRows == 2          \* rows the table may hold in Spec
MaxTime == 30         \* last clock value in Spec
TickStep == 30        \* seconds the clock advances in one Tick
MaxRateRows == 4      \* rows the table may hold in SpecRate
MaxRateTime == 90     \* last clock value in SpecRate
MaxConcRows == 4      \* rows the table may hold in SpecConc
MaxConcTime == 30     \* last clock value in SpecConc
MaxRaceRows == 2      \* rows the table may hold in SpecRace

------------------------------------------------------------------------------
(* The user directory (users/tests.py setUp creates such accounts) *)

Users == {"u1", "u2", "u3", "u4", "u5"}

Email == [u \in Users |-> CASE u = "u1" -> "user1@example.com"
                            [] u = "u2" -> "user2@example.com"
                            [] u = "u3" -> "user3@example.com"
                            [] u = "u4" -> "user4@example.com"
                            [] u = "u5" -> "user5@example.com"]

\* request.data.get('receiver_email') when the key is absent
None == "<None>"
Nonexistent == "nonexistent@example.com"

\* what a client may put in receiver_email
EmailInputs == {Email[u] : u \in Users} \cup {Nonexistent, "", None}

\* a check for the missing key only
Falsy_NoneOnly(e) == e = None

\* Python truthiness of receiver_email: None and '' are falsy
Falsy(e) == e \in {None, ""}

\* User.objects.get(email=receiver_email): the users with exactly that email
UsersByEmail(e) == {u \in Users : Email[u] = e}

------------------------------------------------------------------------------
(* Program constants *)

WindowSeconds == 60   \* timedelta(minutes=1)
RateLimit == 3        \* recent_requests.count() >= 3

HTTP_200_OK == 200
HTTP_201_CREATED == 201
HTTP_400_BAD_REQUEST == 400
HTTP_404_NOT_FOUND == 404
HTTP_429_TOO_MANY_REQUESTS == 429
\* what the framework answers when a handler raises (here: IntegrityError)
HTTP_500_INTERNAL_SERVER_ERROR == 500

------------------------------------------------------------------------------
(* Queries on the table *)

PKs == 1..Len(rows)

\* FriendRequest.objects.filter(sender=s, receiver=r)
PairRows(tbl, s, r) ==
    {k \in 1..Len(tbl) : tbl[k].sender = s /\ tbl[k].receiver = r}

\* a duplicate check that looks at undecided requests only
AlreadySent_PendingOnly(tbl, s, r) ==
    \E k \in PairRows(tbl, s, r) : ~tbl[k].is_accepted /\ ~tbl[k].is_rejected

\* a duplicate check that looks at both directions
AlreadySent_EitherDirection(tbl, s, r) ==
    PairRows(tbl, s, r) # {} \/ PairRows(tbl, r, s) # {}

\* FriendRequest.objects.filter(sender=s, receiver=r).exists()
AlreadySent(tbl, s, r) == PairRows(tbl, s, r) # {}

\* a count over the calendar minute of the call instead of the trailing minute
recent_requests_FixedBucket(tbl, s, one_minute_ago) ==
    {k \in 1..Len(tbl) :
        /\ tbl[k].sender = s
        /\ tbl[k].timestamp \div WindowSeconds
             = (one_minute_ago + WindowSeconds) \div WindowSeconds}

\* a count that never forgets a request
recent_requests_AllTime(tbl, s, one_minute_ago) ==
    {k \in 1..Len(tbl) : tbl[k].sender = s}

\* FriendRequest.objects.filter(sender=s, timestamp__gte=one_minute_ago)
recent_requests(tbl, s, one_minute_ago) ==
    {k \in 1..Len(tbl) : tbl[k].sender = s /\ tbl[k].timestamp >= one_minute_ago}

\* a rate check that lets a fourth request through ("more than 3")
TooManyRecent_MoreThan(tbl, s, t) ==
    Cardinality(recent_requests(tbl, s, t - WindowSeconds)) > RateLimit

\* recent_requests.count() >= 3, with one_minute_ago = timezone.now() - 1 minute
TooManyRecent(tbl, s, t) ==
    Cardinality(recent_requests(tbl, s, t - WindowSeconds)) >= RateLimit

\* a lookup by primary key alone
GetForReceiver_AnyUser(tbl, pk, actor) ==
    {k \in 1..Len(tbl) : k = pk}

\* FriendRequest.objects.get(pk=pk, receiver=actor): the matching keys
GetForReceiver(tbl, pk, actor) ==
    {k \in 1..Len(tbl) : k = pk /\ tbl[k].receiver = actor}

\* a friends query that follows received requests only
list_friends_ReceivedOnly(tbl, actor) ==
    {u \in Users :
        \E k \in 1..Len(tbl) : /\ tbl[k].sender = u
                               /\ tbl[k].receiver = actor
                               /\ tbl[k].is_accepted}

\* a friends query that does not ask received requests to be accepted
list_friends_AnyReceived(tbl, actor) ==
    {u \in Users :
        \/ \E k \in 1..Len(tbl) : /\ tbl[k].sender = u
                                  /\ tbl[k].receiver = actor
        \/ \E k \in 1..Len(tbl) : /\ tbl[k].receiver = u
                                  /\ tbl[k].sender = actor
                                  /\ tbl[k].is_accepted}

\* list_friends: users U with an accepted request U -> actor or actor -> U
list_friends(tbl, actor) ==
    {u \in Users :
        \/ \E k \in 1..Len(tbl) : /\ tbl[k].sender = u
                                  /\ tbl[k].receiver = actor
                                  /\ tbl[k].is_accepted
        \/ \E k \in 1..Len(tbl) : /\ tbl[k].receiver = u
                                  /\ tbl[k].sender = actor
                                  /\ tbl[k].is_accepted}

\* list_pending_requests: keys of the undecided requests received by actor
list_pending_requests(tbl, actor) ==
    {k \in 1..Len(tbl) : /\ tbl[k].receiver = actor
                         /\ ~tbl[k].is_accepted
                         /\ ~tbl[k].is_rejected}

\* FriendRequest(sender=s, receiver=r) as saved at clock value t
NewRequest(s, r, t) ==
    [sender |-> s, receiver |-> r, is_accepted |-> FALSE,
     is_rejected |-> FALSE, timestamp |-> t]

\* friend_request.save() of a new row: the table it leaves, and whether the
\* table refused the row (a uniqueness constraint on (sender, receiver))
SaveOutcome(tbl, unique, row) ==
    IF unique /\ AlreadySent(tbl, row.sender, row.receiver)
    THEN [rows |-> tbl, raised |-> TRUE]
    ELSE [rows |-> Append(tbl, row), raised |-> FALSE]

\* a response: its status, its detail message, and the serialized data as the
\* keys of the requests in it (ids) or the users in it (users)
Resp(status, detail, ids) ==
    [status |-> status, detail |-> detail, ids |-> ids, users |-> {}]
UsersResp(status, detail, users) ==
    [status |-> status, detail |-> detail, ids |-> {}, users |-> users]
Req(op, actor, email, pk) == [op |-> op, actor |-> actor, email |-> email, pk |-> pk]

\* the HTTP workers that may run send_friend_request side by side
Workers == {"w1", "w2"}

NoResp == Resp(0, "none", {})

\* the in-memory FriendRequest of a worker that has loaded none
NoRow == NewRequest("none", "none", 0)

\* a worker between requests, before it has answered any
Idle == [pc |-> "idle", op |-> "none", actor |-> "none", email |-> "none",
         receiver |-> "none", pk |-> 0, row |-> NoRow, response |-> NoResp]

------------------------------------------------------------------------------
(* Initial state: an empty table, no request handled yet.  With atomic     *)
(* handlers a save never meets a row of its own pair (the duplicate check  *)
(* has just passed), so unique_together is immaterial there and held FALSE.*)

Init ==
    /\ rows = <<>>
    /\ now = 0
    /\ request = Req("none", "none", "none", 0)
    /\ response = NoResp
    /\ unique_together = FALSE
    /\ worker = [w \in Workers |-> Idle]

\* The FriendRequest model's declaration is not part of the views: whether it
\* declares the (sender, receiver) pair unique is left open where it matters,
\* that is where a save can meet a row inserted since the duplicate check.
InitConc ==
    /\ rows = <<>>
    /\ now = 0
    /\ request = Req("none", "none", "none", 0)
    /\ response = NoResp
    /\ unique_together \in BOOLEAN
    /\ worker = [w \in Workers |-> Idle]

------------------------------------------------------------------------------
(* The handlers, each executed atomically *)

\* a send that counts the recent requests before it looks for a duplicate
SendOutcome_RateFirst(tbl, unique, t, actor, e) ==
    IF Falsy(e)
    THEN [rows |-> tbl,
          response |-> Resp(HTTP_400_BAD_REQUEST, "Receiver email is required", {})]
    ELSE IF UsersByEmail(e) = {}
    THEN [rows |-> tbl,
          response |-> Resp(HTTP_404_NOT_FOUND, "User not found", {})]
    ELSE LET receiver == CHOOSE u \in UsersByEmail(e) : TRUE IN
         IF TooManyRecent(tbl, actor, t)
         THEN [rows |-> tbl,
               response |-> Resp(HTTP_429_TOO_MANY_REQUESTS,
                                 "You can send a maximum of 3 friend requests per minute", {})]
         ELSE IF AlreadySent(tbl, actor, receiver)
         THEN [rows |-> tbl,
               response |-> Resp(HTTP_400_BAD_REQUEST, "Friend request already sent", {})]
         ELSE LET saved == SaveOutcome(tbl, unique, NewRequest(actor, receiver, t)) IN
              [rows |-> saved.rows,
               response |-> IF saved.raised
                            THEN Resp(HTTP_500_INTERNAL_SERVER_ERROR, "IntegrityError", {})
                            ELSE Resp(HTTP_201_CREATED, "created", {Len(tbl) + 1})]

\* what send_friend_request answers and the table it leaves
SendOutcome(tbl, unique, t, actor, e) ==
    IF Falsy(e)
    THEN [rows |-> tbl,
          response |-> Resp(HTTP_400_BAD_REQUEST, "Receiver email is required", {})]
    ELSE IF UsersByEmail(e) = {}
    THEN [rows |-> tbl,
          response |-> Resp(HTTP_404_NOT_FOUND, "User not found", {})]
    ELSE LET receiver == CHOOSE u \in UsersByEmail(e) : TRUE IN
         IF AlreadySent(tbl, actor, receiver)
         THEN [rows |-> tbl,
               response |-> Resp(HTTP_400_BAD_REQUEST, "Friend request already sent", {})]
         ELSE IF TooManyRecent(tbl, actor, t)
         THEN [rows |-> tbl,
               response |-> Resp(HTTP_429_TOO_MANY_REQUESTS,
                                 "You can send a maximum of 3 friend requests per minute", {})]
         ELSE LET saved == SaveOutcome(tbl, unique, NewRequest(actor, receiver, t)) IN
              [rows |-> saved.rows,
               response |-> IF saved.raised
                            THEN Resp(HTTP_500_INTERNAL_SERVER_ERROR, "IntegrityError", {})
                            ELSE Resp(HTTP_201_CREATED, "created", {Len(tbl) + 1})]

send_friend_request(actor, e) ==
    /\ rows' = SendOutcome(rows, unique_together, now, actor, e).rows
    /\ response' = SendOutcome(rows, unique_together, now, actor, e).response
    /\ request' = Req("send", actor, e, 0)
    /\ UNCHANGED <<now, unique_together, worker>>

AcceptOutcome(tbl, actor, pk) ==
    IF GetForReceiver(tbl, pk, actor) = {}
    THEN [rows |-> tbl,
          response |-> Resp(HTTP_404_NOT_FOUND, "Friend request not found", {})]
    ELSE [rows |-> [tbl EXCEPT ![pk].is_accepted = TRUE],
          response |-> Resp(HTTP_200_OK, "ok", {pk})]

accept_friend_request(actor, pk) ==
    /\ rows' = AcceptOutcome(rows, actor, pk).rows
    /\ response' = AcceptOutcome(rows, actor, pk).response
    /\ request' = Req("accept", actor, "none", pk)
    /\ UNCHANGED <<now, unique_together, worker>>

RejectOutcome(tbl, actor, pk) ==
    IF GetForReceiver(tbl, pk, actor) = {}
    THEN [rows |-> tbl,
          response |-> Resp(HTTP_404_NOT_FOUND, "Friend request not found", {})]
    ELSE [rows |-> [tbl EXCEPT ![pk].is_rejected = TRUE],
          response |-> Resp(HTTP_200_OK, "ok", {pk})]

reject_friend_request(actor, pk) ==
    /\ rows' = RejectOutcome(rows, actor, pk).rows
    /\ response' = RejectOutcome(rows, actor, pk).response
    /\ request' = Req("reject", actor, "none", pk)
    /\ UNCHANGED <<now, unique_together, worker>>

ListFriends(actor) ==
    /\ response' = UsersResp(HTTP_200_OK, "ok", list_friends(rows, actor))
    /\ request' = Req("list_friends", actor, "none", 0)
    /\ UNCHANGED <<rows, now, unique_together, worker>>

ListPending(actor) ==
    /\ response' = Resp(HTTP_200_OK, "ok", list_pending_requests(rows, actor))
    /\ request' = Req("list_pending", actor, "none", 0)
    /\ UNCHANGED <<rows, now, unique_together, worker>>

\* the wall clock advances
Tick ==
    /\ now' = now + TickStep
    /\ UNCHANGED <<rows, request, response, unique_together, worker>>

------------------------------------------------------------------------------
(* Spec: the whole workflow.  u1 and u2 send to each other, to themselves  *)
(* and to bad addresses; u1, u2 and u3 accept, reject and list.            *)

Senders == {"u1", "u2"}
SendEmails == {Email[u] : u \in Senders} \cup {Nonexistent, "", None}
Actors == {"u1", "u2", "u3"}

Next ==
    \/ \E a \in Senders, e \in SendEmails :
          send_friend_request(a, e) /\ Len(rows') <= MaxRows
    \/ \E a \in Actors, pk \in 1..(MaxRows + 1) : accept_friend_request(a, pk)
    \/ \E a \in Actors, pk \in 1..(MaxRows + 1) : reject_friend_request(a, pk)
    \/ \E a \in Actors : ListFriends(a)
    \/ \E a \in Actors : ListPending(a)
    \/ Tick /\ now' <= MaxTime

Spec == Init /\ [][Next]_vars

------------------------------------------------------------------------------
(* SpecRate: sends only, while the clock advances.  u1 sends to the four   *)
(* other users and to bad addresses; u2 sends to u1.                       *)

RateInputs ==
    ({"u1"} \X (EmailInputs \ {Email["u1"]})) \cup {<<"u2", Email["u1"]>>}

NextRate ==
    \/ \E i \in RateInputs :
          send_friend_request(i[1], i[2]) /\ Len(rows') <= MaxRateRows
    \/ Tick /\ now' <= MaxRateTime

SpecRate == Init /\ [][NextRate]_vars

------------------------------------------------------------------------------
(* send_friend_request as the steps a worker takes against the shared      *)
(* table: the handler holds no lock and opens no transaction, so the steps *)
(* of two workers interleave.                                              *)

\* a worker that has answered: it keeps what it was asked and what it said
Answered(w, resp) == [worker[w] EXCEPT !.pc = "idle", !.response = resp]

\* lines 118-124: read receiver_email and look the receiver up
SendStart(w, actor, e) ==
    /\ worker[w].pc = "idle"
    /\ worker' = [worker EXCEPT ![w] =
          IF Falsy(e)
          THEN [Idle EXCEPT !.op = "send", !.actor = actor, !.email = e,
                  !.response = Resp(HTTP_400_BAD_REQUEST, "Receiver email is required", {})]
          ELSE IF UsersByEmail(e) = {}
          THEN [Idle EXCEPT !.op = "send", !.actor = actor, !.email = e,
                  !.response = Resp(HTTP_404_NOT_FOUND, "User not found", {})]
          ELSE [Idle EXCEPT !.pc = "exists", !.op = "send", !.actor = actor, !.email = e,
                  !.receiver = CHOOSE u \in UsersByEmail(e) : TRUE]]
    /\ UNCHANGED <<rows, now, request, response, unique_together>>

\* lines 126-127: the duplicate check
SendCheckExists(w) ==
    /\ worker[w].pc = "exists"
    /\ worker' = [worker EXCEPT ![w] =
          IF AlreadySent(rows, worker[w].actor, worker[w].receiver)
          THEN Answered(w, Resp(HTTP_400_BAD_REQUEST, "Friend request already sent", {}))
          ELSE [@ EXCEPT !.pc = "count"]]
    /\ UNCHANGED <<rows, now, request, response, unique_together>>

\* lines 129-132: the rate-limit count
SendCheckRate(w) ==
    /\ worker[w].pc = "count"
    /\ worker' = [worker EXCEPT ![w] =
          IF TooManyRecent(rows, worker[w].actor, now)
          THEN Answered(w, Resp(HTTP_429_TOO_MANY_REQUESTS,
                                "You can send a maximum of 3 friend requests per minute", {}))
          ELSE [@ EXCEPT !.pc = "save"]]
    /\ UNCHANGED <<rows, now, request, response, unique_together>>

\* lines 134-136: the insert, stamped with the clock at the time of the save
SendSave(w) ==
    /\ worker[w].pc = "save"
    /\ LET saved == SaveOutcome(rows, unique_together,
                                NewRequest(worker[w].actor, worker[w].receiver, now)) IN
       /\ rows' = saved.rows
       /\ worker' = [worker EXCEPT ![w] =
             IF saved.raised
             THEN Answered(w, Resp(HTTP_500_INTERNAL_SERVER_ERROR, "IntegrityError", {}))
             ELSE Answered(w, Resp(HTTP_201_CREATED, "created", {Len(rows) + 1}))]
    /\ UNCHANGED <<now, request, response, unique_together>>

\* SpecConc: u1 sends to the four other users and to an unknown address,
\* from two workers
ConcInputs == {"u1"} \X ({Email[u] : u \in Users \ {"u1"}} \cup {Nonexistent})

NextConc ==
    \/ \E w \in Workers, i \in ConcInputs : SendStart(w, i[1], i[2])
    \/ \E w \in Workers : SendCheckExists(w)
    \/ \E w \in Workers : SendCheckRate(w)
    \/ \E w \in Workers : SendSave(w) /\ Len(rows') <= MaxConcRows
    \/ Tick /\ now' <= MaxConcTime

SpecConc == InitConc /\ [][NextConc]_vars

------------------------------------------------------------------------------
(* accept_friend_request and reject_friend_request as the two steps a      *)
(* worker takes against the shared table: it loads the row into memory     *)
(* (get), then sets its flag on the copy and writes the copy back (save()  *)
(* without update_fields writes every field of the instance).              *)

\* a worker that has answered an accept or reject; it takes no further call
Decided(w, resp) == [worker[w] EXCEPT !.pc = "done", !.response = resp]

\* line 156 (accept) / line 182 (reject): the row is loaded, or 404 is answered
LoadOutcome(w, op, actor, pk) ==
    IF GetForReceiver(rows, pk, actor) = {}
    THEN [Idle EXCEPT !.pc = "done", !.op = op, !.actor = actor, !.pk = pk,
            !.response = Resp(HTTP_404_NOT_FOUND, "Friend request not found", {})]
    ELSE [Idle EXCEPT !.pc = "write", !.op = op, !.actor = actor, !.pk = pk,
            !.row = rows[pk]]

\* lines 155-158
AcceptRead(w, actor, pk) ==
    /\ worker[w].pc = "idle"
    /\ worker' = [worker EXCEPT ![w] = LoadOutcome(w, "accept", actor, pk)]
    /\ UNCHANGED <<rows, now, request, response, unique_together>>

\* lines 160-162
AcceptWrite(w) ==
    /\ worker[w].pc = "write"
    /\ worker[w].op = "accept"
    /\ rows' = [rows EXCEPT ![worker[w].pk] =
                   [worker[w].row EXCEPT !.is_accepted = TRUE]]
    /\ worker' = [worker EXCEPT ![w] =
                     Decided(w, Resp(HTTP_200_OK, "ok", {worker[w].pk}))]
    /\ UNCHANGED <<now, request, response, unique_together>>

\* lines 181-184
RejectRead(w, actor, pk) ==
    /\ worker[w].pc = "idle"
    /\ worker' = [worker EXCEPT ![w] = LoadOutcome(w, "reject", actor, pk)]
    /\ UNCHANGED <<rows, now, request, response, unique_together>>

\* lines 186-188
RejectWrite(w) ==
    /\ worker[w].pc = "write"
    /\ worker[w].op = "reject"
    /\ rows' = [rows EXCEPT ![worker[w].pk] =
                   [worker[w].row EXCEPT !.is_rejected = TRUE]]
    /\ worker' = [worker EXCEPT ![w] =
                     Decided(w, Resp(HTTP_200_OK, "ok", {worker[w].pk}))]
    /\ UNCHANGED <<now, request, response, unique_together>>

\* SpecRace: u1 and u2 send to each other; then each of the two workers takes
\* one accept or reject call, by u1 or u2, and the calls' steps interleave
RaceSends == {<<"u1", Email["u2"]>>, <<"u2", Email["u1"]>>}
RaceActors == {"u1", "u2"}

NextRace ==
    \/ \E i \in RaceSends :
          send_friend_request(i[1], i[2]) /\ Len(rows') <= MaxRaceRows
    \/ \E w \in Workers, a \in RaceActors, pk \in 1..MaxRaceRows : AcceptRead(w, a, pk)
    \/ \E w \in Workers : AcceptWrite(w)
    \/ \E w \in Workers, a \in RaceActors, pk \in 1..MaxRaceRows : RejectRead(w, a, pk)
    \/ \E w \in Workers : RejectWrite(w)

SpecRace == Init /\ [][NextRace]_vars

------------------------------------------------------------------------------
(* Properties *)

\* the requests of sender s created within the 60 seconds up to clock value t
InTrailingWindow(tbl, s, t) ==
    {k \in 1..Len(tbl) : /\ tbl[k].sender = s
                         /\ tbl[k].timestamp <= t
                         /\ t - tbl[k].timestamp <= 60}

Conflict == Resp(HTTP_400_BAD_REQUEST, "Friend request already sent", {})

\* the step handles a request of kind op: every handler records the request it
\* handled and its response and leaves the clock alone (a step that changes
\* nothing at all satisfies every [A]_vars)
Handles(op) == request'.op = op /\ now' = now

\* C1: no FriendRequest ever has is_accepted and is_rejected both true
\* (stated for the requests between two different users; accept and reject
\* each set their own flag whatever the other flag is)
C1_FlagsExclusive ==
    \A k \in PKs : rows[k].sender # rows[k].receiver
                    => ~(rows[k].is_accepted /\ rows[k].is_rejected)

\* C2 as stated: whenever the sender has 3 or more requests in the trailing
\* 60 seconds, a send is answered 429 and creates no row
C2_RateLimitedWhenever ==
    [][(/\ Handles("send")
        /\ Cardinality(InTrailingWindow(rows, request'.actor, now)) >= 3)
       => (response'.status = 429 /\ rows' = rows)]_vars

\* C2 amended: a send to an existing receiver the sender has no request to yet
\* is answered 429 and creates no row whenever the sender has 3 or more
\* requests in the trailing 60 seconds, and is answered 201 and adds its row
\* when the sender has fewer; so of 4 sends to distinct existing receivers
\* within 60 seconds the first 3 succeed and the 4th is rate limited
C2_RateLimited ==
    [][\A r \in UsersByEmail(request'.email) :
          (Handles("send") /\ PairRows(rows, request'.actor, r) = {})
          => IF Cardinality(InTrailingWindow(rows, request'.actor, now)) >= 3
             THEN response'.status = 429 /\ rows' = rows
             ELSE /\ response'.status = 201
                  /\ rows' = Append(rows, NewRequest(request'.actor, r, now))]_vars

\* C2 witness: u1's fourth send to a new receiver has just been answered 429
C2_Witness ==
    /\ request.op = "send"
    /\ request.actor = "u1"
    /\ response.status = 429
    /\ Len(rows) = 3
    /\ \A k \in PKs : rows[k].sender = "u1"
    /\ \A r \in UsersByEmail(request.email) : PairRows(rows, "u1", r) = {}

\* C3: a send S -> R is answered Conflict and creates no row whenever a row
\* S -> R exists, whatever its state; and the table never holds two rows for
\* one ordered (sender, receiver) pair
C3_DuplicateConflict ==
    /\ [][\A r \in UsersByEmail(request'.email) :
            (Handles("send") /\ PairRows(rows, request'.actor, r) # {})
            => (response' = Conflict /\ rows' = rows)]_vars
    /\ [](\A s \in Users, r \in Users : Cardinality(PairRows(rows, s, r)) <= 1)

\* C3 witness: a send has just been answered Conflict because of a request
\* that was already accepted or rejected
C3_Witness ==
    /\ request.op = "send"
    /\ response = Conflict
    /\ request.actor \notin UsersByEmail(request.email)
    /\ \E r \in UsersByEmail(request.email) : \E k \in PairRows(rows, request.actor, r) :
          rows[k].is_accepted \/ rows[k].is_rejected

\* the workers whose last answer was to a send from s to r
AnsweredSends(s, r) ==
    {w \in Workers : /\ worker[w].pc = "idle"
                     /\ worker[w].actor = s
                     /\ worker[w].receiver = r}

\* C4: however two concurrent sends of the same (sender, receiver) interleave,
\* at most one row for the pair is created and the send that lost is answered
\* Conflict
\* (violated: both sends pass the duplicate check before either saves; the
\* table then holds two rows, or, if it refuses the second row, the handler
\* answers with the unhandled IntegrityError instead of Conflict)
C4_ConcurrentSendOneRow ==
    \A s \in Users, r \in Users :
        /\ Cardinality(PairRows(rows, s, r)) <= 1
        /\ \A w \in AnsweredSends(s, r) :
              worker[w].response.status \in {201, 429} \/ worker[w].response = Conflict

\* C5: however concurrent sends of one sender interleave, the sender never has
\* more than 3 rows whose created_at fall within one 60-second window
\* (stated for the tables that hold no two rows of one pair, so that it does
\* not rest on the duplicate race; violated: the count and the save are
\* separate steps, so two sends that both count 2 both save)
C5_ConcurrentRateLimit ==
    (\A s \in Users, r \in Users : Cardinality(PairRows(rows, s, r)) <= 1)
    => \A s \in Users : \A k \in PKs :
          Cardinality({j \in PKs : /\ rows[j].sender = s
                                   /\ rows[j].timestamp >= rows[k].timestamp
                                   /\ rows[j].timestamp - rows[k].timestamp <= 60}) <= 3

NotFound(resp) == resp.status = 404

\* C6: accept and reject answer 404 and change no row when no row has the
\* given id or its receiver is not the actor; and whenever a flag of a row
\* changes, the step is an accept or reject by that row's receiver
C6_OnlyReceiverDecides ==
    /\ [][(/\ (Handles("accept") \/ Handles("reject"))
            /\ (request'.pk \notin PKs \/ rows[request'.pk].receiver # request'.actor))
           => (NotFound(response') /\ rows' = rows)]_vars
    /\ [][\A k \in PKs :
            (\/ rows'[k].is_accepted # rows[k].is_accepted
             \/ rows'[k].is_rejected # rows[k].is_rejected)
            => (/\ request'.op \in {"accept", "reject"}
                /\ request'.actor = rows[k].receiver
                /\ request'.pk = k)]_vars

\* C6 witness: the sender of an existing request to somebody else has just
\* tried to accept or reject it and was answered 404
C6_Witness ==
    /\ request.op \in {"accept", "reject"}
    /\ NotFound(response)
    /\ request.pk \in PKs
    /\ rows[request.pk].sender = request.actor
    /\ rows[request.pk].receiver # request.actor
    /\ ~rows[request.pk].is_accepted /\ ~rows[request.pk].is_rejected

C8_AcceptMakesFriends ==
    (request.op = "accept" /\ response.status = 200)
    => LET k == request.pk IN
       /\ rows[k].receiver \in list_friends(rows, rows[k].sender)
       /\ rows[k].sender \in list_friends(rows, rows[k].receiver)
       /\ k \notin list_pending_requests(rows, rows[k].receiver)

\* C8 witness: accept has just succeeded on a request between two different
\* users that had been rejected before
C8_Witness ==
    /\ request.op = "accept"
    /\ response.status = 200
    /\ rows[request.pk].sender # rows[request.pk].receiver
    /\ rows[request.pk].is_rejected

\* an accepted request other than k that links the users of request k
OtherAcceptedLink(k) ==
    \E j \in PKs \ {k} :
        /\ rows[j].is_accepted
        /\ {rows[j].sender, rows[j].receiver} = {rows[k].sender, rows[k].receiver}

\* C9: once reject has succeeded on a request S -> R, the request is not in
\* list_pending(R) and, unless another accepted request links S and R, R is
\* not in list_friends(S) and S is not in list_friends(R)
\* (stated for the requests between two different users; violated when the
\* request had been accepted before, since reject leaves is_accepted set)
C9_RejectNoFriendship ==
    (/\ request.op = "reject"
     /\ response.status = 200
     /\ rows[request.pk].sender # rows[request.pk].receiver)
    => LET k == request.pk IN
       /\ k \notin list_pending_requests(rows, rows[k].receiver)
       /\ ~OtherAcceptedLink(k)
          => /\ rows[k].receiver \notin list_friends(rows, rows[k].sender)
             /\ rows[k].sender \notin list_friends(rows, rows[k].receiver)

\* C10: a send to oneself is answered Conflict and creates no row, so no row
\* has sender = receiver and nobody is in their own list_friends
\* (violated: send_friend_request never compares the receiver with the sender)
C10_NoSelfRequest ==
    /\ \A k \in PKs : rows[k].sender # rows[k].receiver
    /\ \A u \in Users : u \notin list_friends(rows, u)
    /\ (request.op = "send" /\ request.actor \in UsersByEmail(request.email))
       => response = Conflict

\* C11: once a flag of a request is true, no later accept or reject, however
\* the read and write steps of the calls interleave, makes it false again
\* (the never-revert part of the claim; violated: a reject that loaded the row
\* while it was pending writes its whole copy back over a completed accept,
\* and the other way round)
C11_FlagsNeverRevert ==
    [][\A k \in PKs :
          /\ rows[k].is_accepted => rows'[k].is_accepted
          /\ rows[k].is_rejected => rows'[k].is_rejected]_vars

\* the workers that have completed op on request k
Completed(op, k) ==
    {w \in Workers : /\ worker[w].pc = "done"
                     /\ worker[w].op = op
                     /\ worker[w].pk = k
                     /\ worker[w].response.status = 200}

\* C12: when an accept and a reject of the same pending request have both
\* completed, in whatever order their steps ran, exactly one of is_accepted
\* and is_rejected is true
\* (violated when the accept has written before the reject loads the row, or
\* the other way round: the second call adds its flag to the first one's)
C12_ExactlyOneFinalState ==
    \A k \in PKs :
        (Completed("accept", k) # {} /\ Completed("reject", k) # {})
        => (rows[k].is_accepted # rows[k].is_rejected)

\* the undecided requests from s to r
PendingRows(tbl, s, r) ==
    {k \in PairRows(tbl, s, r) : ~tbl[k].is_accepted /\ ~tbl[k].is_rejected}

\* C13 as stated: a send S -> R is answered Conflict and creates no row when a
\* pending request exists between S and R in either direction; and no two
\* users ever have pending requests in both directions at once
C13_EitherDirectionConflict ==
    /\ [][\A r \in UsersByEmail(request'.email) \ {request'.actor} :
            (/\ Handles("send")
             /\ PendingRows(rows, request'.actor, r) \cup PendingRows(rows, r, request'.actor) # {})
            => (response' = Conflict /\ rows' = rows)]_vars
    /\ [](\A s \in Users : \A r \in Users \ {s} :
            PendingRows(rows, s, r) = {} \/ PendingRows(rows, r, s) = {})

\* C13 amended: a request R -> S alone, pending or decided, does not block a
\* send S -> R: with no row S -> R the send is never answered Conflict and,
\* when the sender has fewer than 3 requests in the trailing 60 seconds, it is
\* answered 201 and creates the row S -> R
C13_ReverseDoesNotBlock ==
    [][\A r \in UsersByEmail(request'.email) \ {request'.actor} :
          (/\ Handles("send")
           /\ PairRows(rows, r, request'.actor) # {}
           /\ PairRows(rows, request'.actor, r) = {})
          => /\ response' # Conflict
             /\ Cardinality(InTrailingWindow(rows, request'.actor, now)) < 3
                => /\ response'.status = 201
                   /\ rows' = Append(rows, NewRequest(request'.actor, r, now))]_vars

\* C13 witness: a send has just succeeded and two users have pending requests
\* in both directions
C13_Witness ==
    /\ request.op = "send"
    /\ response.status = 201
    /\ \E s \in Users : \E r \in Users \ {s} :
          PendingRows(rows, s, r) # {} /\ PendingRows(rows, r, s) # {}

\* the requests of sender s created in the closed interval [t, t + 60]
InWindowFrom(tbl, s, t) ==
    {k \in 1..Len(tbl) : /\ tbl[k].sender = s
                         /\ tbl[k].timestamp >= t
                         /\ tbl[k].timestamp - t <= 60}

\* C14: for every sender and every closed 60-second interval, at most 3 of the
\* sender's requests were created inside the interval (an interval holding
\* some request holds no more of them than the interval of the same length
\* that starts at the earliest of them, so those intervals are checked)
C14_SlidingWindow ==
    \A s \in Users : \A k \in PKs :
        Cardinality(InWindowFrom(rows, s, rows[k].timestamp)) <= 3

\* C14 witness: a sender has 4 requests, and 3 of them were created at three
\* different times inside one 60-second interval
C14_Witness ==
    \E k \in PKs :
        /\ Cardinality({j \in PKs : rows[j].sender = rows[k].sender}) = 4
        /\ Cardinality(InWindowFrom(rows, rows[k].sender, rows[k].timestamp)) = 3
        /\ Cardinality({rows[j].timestamp :
                           j \in InWindowFrom(rows, rows[k].sender, rows[k].timestamp)}) = 3

\* some accepted request links u and v, in either direction
AcceptedLink(tbl, u, v) ==
    \E k \in 1..Len(tbl) : /\ tbl[k].is_accepted
                            /\ {tbl[k].sender, tbl[k].receiver} = {u, v}

\* C15 (friends is the set of pairs <<U, V>> with U in list_friends(V)):
\* U is in list_friends(V) exactly when V is in list_friends(U), and
\* exactly when some accepted request has {sender, receiver} = {U, V}; and
\* that is the list the list_friends call answers with
C15_FriendshipSymmetric ==
    /\ LET friends == UNION {{<<u, v>> : u \in list_friends(rows, v)} : v \in Users} IN
          /\ \A p \in friends : <<p[2], p[1]>> \in friends
          /\ friends = {p \in Users \X Users : AcceptedLink(rows, p[1], p[2])}
    /\ request.op = "list_friends"
       => response.users = {u \in Users : AcceptedLink(rows, u, request.actor)}

\* C15 witness: list_friends has just answered the sender of an accepted
\* request with its receiver, while another request to the sender is pending
C15_Witness ==
    /\ request.op = "list_friends"
    /\ \E k \in PKs : /\ rows[k].sender = request.actor
                       /\ rows[k].receiver # request.actor
                       /\ rows[k].is_accepted
                       /\ response.users = {rows[k].receiver}
    /\ \E k \in PKs : /\ rows[k].receiver = request.actor
                       /\ rows[k].sender # request.actor
                       /\ ~rows[k].is_accepted

\* the table after the call worker w is in saves the row it loaded, had the
\* save written the one flag the call sets
OneFlagSaved(w) ==
    IF worker[w].op = "accept"
    THEN [rows EXCEPT ![worker[w].pk].is_accepted = TRUE]
    ELSE [rows EXCEPT ![worker[w].pk].is_rejected = TRUE]

\* C16: no step deletes a row or changes a row's sender, receiver or
\* created_at; a successful send appends one row with both flags false and
\* changes no other row; the save of a successful accept (reject) sets
\* is_accepted (is_rejected) of the row it names and changes nothing else;
\* every other step leaves the table as it was
C16_Frame ==
    [][/\ Len(rows') >= Len(rows)
       /\ \A k \in PKs : /\ rows'[k].sender = rows[k].sender
                          /\ rows'[k].receiver = rows[k].receiver
                          /\ rows'[k].timestamp = rows[k].timestamp
       /\ IF \E w \in Workers : worker[w].pc = "write" /\ worker'[w].pc = "done"
          THEN \A w \in Workers :
                  (worker[w].pc = "write" /\ worker'[w].pc = "done")
                  => rows' = OneFlagSaved(w)
          ELSE IF worker' = worker /\ response'.status = 201
          THEN /\ Len(rows') = Len(rows) + 1
               /\ \A k \in PKs : rows'[k] = rows[k]
               /\ ~rows'[Len(rows')].is_accepted /\ ~rows'[Len(rows')].is_rejected
          ELSE rows' = rows]_vars

\* C17: a send that is not answered 201 leaves the table, and so every
\* sender's count, as it was; and a send to an existing receiver the sender
\* has no request to yet succeeds whenever fewer than 3 of the sender's
\* requests were created in the trailing 60 seconds, whatever was sent or
\* refused before
C17_QuotaReleased ==
    [][Handles("send")
       => /\ response'.status # 201 => rows' = rows
          /\ \A r \in UsersByEmail(request'.email) :
                (/\ PairRows(rows, request'.actor, r) = {}
                 /\ Cardinality(InTrailingWindow(rows, request'.actor, now)) < 3)
                => (response'.status = 201 /\ Len(rows') = Len(rows) + 1)]_vars

\* C17 witness: a sender whose first 3 requests are more than 60 seconds old
\* has just had a fourth request created
C17_Witness ==
    /\ request.op = "send"
    /\ response.status = 201
    /\ Len(rows) = 4
    /\ \A k \in PKs : rows[k].sender = request.actor
    /\ \A k \in 1..3 : rows[k].timestamp = rows[1].timestamp
    /\ rows[4].timestamp - rows[1].timestamp > 60
    /\ rows[4].timestamp = now

\* C18: send looks the receiver up first, then looks for a duplicate, then
\* counts: an unknown receiver is answered 404 whatever the sender's count,
\* and a sender with 3 or more requests in the trailing 60 seconds who sends
\* again to a receiver already requested is answered Conflict, not 429
C18_CheckOrder ==
    [][Handles("send")
       => /\ (request'.email \notin {"", None} /\ UsersByEmail(request'.email) = {})
             => response' = Resp(404, "User not found", {})
          /\ \A r \in UsersByEmail(request'.email) :
                (/\ PairRows(rows, request'.actor, r) # {}
                 /\ Cardinality(InTrailingWindow(rows, request'.actor, now)) >= 3)
                => response' = Conflict]_vars

\* C18 witness: a sender with 3 requests in the trailing 60 seconds has just
\* been answered Conflict
C18_Witness ==
    /\ request.op = "send"
    /\ response = Conflict
    /\ Cardinality(InTrailingWindow(rows, request.actor, now)) >= 3

====
